---- MODULE Spec2Model ----
(***************************************************************************)
(* A model of backend/main.py: the pipe-network solver solve_network       *)
(* (validation, graph construction, flow initialisation, the Hardy Cross   *)
(* iteration) and the puzzle-mode deduction solve_puzzle_network.          *)
(*                                                                         *)
(* Numbers.  Python floats are modelled in fixed point, as integer         *)
(* multiples of a quantum that depends on the quantity:                    *)
(*    flow, demand, given_flow, delta_Q      1e-7 m^3/s                    *)
(*    head loss, given_head_loss             1e-7 m                        *)
(*    resistance coefficient K               1e7  s^2/m^5                  *)
(*    length                                 1 m                           *)
(*    diameter                               1e-2 m                        *)
(*    roughness (Darcy friction factor)      1e-2                          *)
(* so that K * Q * |Q| is a head loss and (K*Q*|Q|) / (K*|Q|) is a flow    *)
(* with no further scaling.  Additions and multiplications are exact; a    *)
(* division rounds to the nearest quantum.  Thresholds of the code that    *)
(* are finer than the quantum (1e-9, 1e-10, 1e-12) compare as they do on   *)
(* multiples of the quantum.                                               *)
(*                                                                         *)
(* Objects.  PipeInput and NodeInput objects live in a heap (objPipes,     *)
(* objNodes); a Python list of objects is a sequence of heap references.   *)
(* Optional[float] is None == <<>> or Some(v) == <<v>>.                    *)
(***************************************************************************)
EXTENDS Integers, Sequences, FiniteSets, TLC

VARIABLES
    method,          \* data.method
    data_pipes,      \* data.pipes: the caller's list (heap references)
    data_nodes,      \* data.nodes: the caller's list (heap references)
    objPipes,        \* heap of PipeInput objects
    objNodes,        \* heap of NodeInput objects
    callerPipes,     \* the PipeInput objects as the caller passed them
    callerNodes,     \* the NodeInput objects as the caller passed them
    truth,           \* puzzle round trip: the fully specified network
    pc,              \* position in solve_network / solve_puzzle_network
    pipes,           \* local list of solve_network (heap references)
    nodes,           \* local list of solve_network (heap references)
    loops,           \* nx.cycle_basis(G)
    pipe_flows,      \* pipe id -> flow
    pipe_K,          \* pipe id -> K
    init_flows,      \* pipe_flows as initialize_flows_robust returned it
    sinks,           \* initialize_flows_robust: sorted sink ids
    sources,         \* initialize_flows_robust: sorted source ids
    remaining_supply,\* initialize_flows_robust: source id -> supply left
    sink_i,          \* index of the outer loop over sinks
    source_i,        \* index of the inner loop over sources
    demand_needed,   \* initialize_flows_robust: demand left at the sink
    history,         \* solve_network: one entry per iteration
    converged,       \* solve_network: converged flag
    solved_flows,    \* puzzle: pipe id -> Optional flow
    solved_hl,       \* puzzle: pipe id -> Optional head loss
    solved_demands,  \* puzzle: node id -> Optional demand
    changed,         \* puzzle: the while loop's flag
    iterations,      \* puzzle: the while loop's counter
    result           \* what solve_network returned (or that it raised)

vars == <<method, data_pipes, data_nodes, objPipes, objNodes, callerPipes,
          callerNodes, truth, pc, pipes, nodes, loops, pipe_flows, pipe_K,
          init_flows, sinks, sources, remaining_supply, sink_i, source_i,
          demand_needed, history, converged, solved_flows, solved_hl,
          solved_demands, changed, iterations, result>>

---------------------------------------------------------------------------
(* Optional values and arithmetic helpers *)

None == <<>>
Some(v) == <<v>>
IsNone(x) == x = <<>>
Val(x) == x[1]

Abs(x) == IF x < 0 THEN -x ELSE x

\* a / b for b > 0, rounded to the nearest integer (halves away from zero)
RoundDiv(a, b) ==
    IF a >= 0 THEN (2 * a + b) \div (2 * b)
    ELSE -((2 * (-a) + b) \div (2 * b))

\* Python's round(x, d): to the nearest multiple of step, halves to even
RoundTo(x, step) ==
    LET a == Abs(x)
        lo == (a \div step) * step
        r == a - lo
        up == IF 2 * r > step THEN TRUE
              ELSE IF 2 * r < step THEN FALSE
              ELSE ((a \div step) % 2) = 1
        m == IF up THEN lo + step ELSE lo
    IN  IF x < 0 THEN -m ELSE m

\* round(x, 6) and round(x, 2) of a quantity held in units of 1e-7
Round6(x) == RoundTo(x, 10)
Round2(x) == RoundTo(x, 100000)

RECURSIVE SeqSum(_)
SeqSum(s) == IF s = <<>> THEN 0 ELSE s[1] + SeqSum(Tail(s))

Range(s) == {s[i] : i \in DOMAIN s}

---------------------------------------------------------------------------
(* The inputs: network descriptions a caller can pass to solve_network *)

\* largest node demand of a darcy input, in steps of 100 quanta (1e-5 m^3/s)
MaxDemand == 1
\* largest number of fields the puzzle input hides
MaxHidden == 4

\* node ids are 1..n and pipe ids are 1..Len(pipes); a pipe is <<start, end>>
Topologies == <<
    [n |-> 2, pipes |-> << <<1, 2>> >>],                              \* 1 one pipe
    [n |-> 3, pipes |-> << <<1, 2>>, <<3, 2>> >>],                    \* 2 chain
    [n |-> 3, pipes |-> << <<1, 2>>, <<2, 3>>, <<3, 1>> >>],          \* 3 triangle
    [n |-> 4, pipes |-> << <<1, 2>>, <<2, 3>>, <<3, 1>>,
                           <<3, 4>>, <<4, 2>> >>],                    \* 4 two loops
    [n |-> 3, pipes |-> << <<1, 2>>, <<2, 3>>, <<3, 1>>, <<2, 1>> >>],\* 5 parallel pipes
    [n |-> 4, pipes |-> << <<1, 2>>, <<3, 4>> >>],                    \* 6 two components
    [n |-> 2, pipes |-> << >>],                                       \* 7 no pipe
    [n |-> 3, pipes |-> << <<1, 2>> >>]                               \* 8 isolated node
>>

StdPipe(i, se, k) ==
    [id |-> i, start_node |-> se[1], end_node |-> se[2],
     length |-> Some(1), diameter |-> Some(1), roughness |-> Some(2),
     resistance_k |-> k, given_flow |-> None, given_head_loss |-> None]

\* the values a pipe's optional properties take in the inputs
LengthChoices == {None, Some(0), Some(1)}
DiameterChoices == {None, Some(0), Some(1)}
RoughnessChoices == {None, Some(0), Some(2), Some(150)}
ResistanceChoices == {None, Some(0), Some(200)}

FullDemands ==
    {None, Some(5)} \cup {Some(100 * d) : d \in (-MaxDemand)..MaxDemand}
CoarseDemands == {Some(100 * d) : d \in (-MaxDemand)..MaxDemand}
DemandChoices(n) == IF n <= 3 THEN FullDemands ELSE CoarseDemands

NoTruth == [topo |-> 0, flows |-> <<>>, heads |-> <<>>]

InitDarcy ==
    \E t \in 1..Len(Topologies) :
      LET T == Topologies[t]
          P == Len(T.pipes)
      IN  \E dem \in [1..T.n -> DemandChoices(T.n)], heavy \in 0..P,
             len \in LengthChoices, dia \in DiameterChoices,
             rough \in RoughnessChoices, rk \in ResistanceChoices :
            \* only the one-pipe network varies the pipe's own properties
            /\ (t # 1) => (len = Some(1) /\ dia = Some(1)
                            /\ rough = Some(2) /\ rk = None)
            /\ (t = 1) => heavy = 0
            /\ method = "darcy"
            /\ truth = NoTruth
            /\ objPipes = [i \in 1..P |->
                 IF t = 1
                 THEN [StdPipe(i, T.pipes[i], rk) EXCEPT
                         !.length = len, !.diameter = dia, !.roughness = rough]
                 ELSE StdPipe(i, T.pipes[i],
                              IF i = heavy THEN Some(200) ELSE None)]
            /\ objNodes = [i \in 1..T.n |-> [id |-> i, demand |-> dem[i]]]

\* Fully specified networks: pipe flows and node heads.  The head loss of a
\* pipe is the head difference of its ends and a node's demand is its
\* outflow minus its inflow, so both conservation laws hold.
Truths == {
    [topo |-> 3, flows |-> <<30000000, 12550000, -20000000>>,
                 heads |-> <<50000000, 30000000, 18750000>>],
    [topo |-> 2, flows |-> <<12340000, -7000000>>,
                 heads |-> <<9000000, 4000000, 1500000>>],
    [topo |-> 4, flows |-> <<20000000, 0, -10000000, -10000000, 20000000>>,
                 heads |-> <<40000000, 20000000, 20000000, 30000000>>],
    [topo |-> 5, flows |-> <<10000000, 5000000, -15000000, -10000000>>,
                 heads |-> <<30000000, 20000000, 10000000>>],
    [topo |-> 6, flows |-> <<10000000, -25000000>>,
                 heads |-> <<10000000, 0, 0, 12345000>>],
    [topo |-> 7, flows |-> << >>, heads |-> <<0, 0>>],
    [topo |-> 8, flows |-> <<15000000>>, heads |-> <<20000000, 10000000, 0>>]
}

TruthPipes(tr) == Topologies[tr.topo].pipes
TruthHl(tr, i) ==
    Abs(tr.heads[TruthPipes(tr)[i][1]] - tr.heads[TruthPipes(tr)[i][2]])
TruthDemand(tr, n) ==
    LET ps == TruthPipes(tr)
        out == [i \in DOMAIN ps |-> IF ps[i][1] = n THEN tr.flows[i] ELSE 0]
        inn == [i \in DOMAIN ps |-> IF ps[i][2] = n THEN tr.flows[i] ELSE 0]
    IN  SeqSum(out) - SeqSum(inn)
\* the head drops in the direction of the flow (a flow of 0 counts as
\* start -> end, as flow_sign does in solve_puzzle_network)
Consistent(tr) ==
    \A i \in DOMAIN TruthPipes(tr) :
      LET drop == tr.heads[TruthPipes(tr)[i][1]] - tr.heads[TruthPipes(tr)[i][2]]
      IN  IF tr.flows[i] >= 0 THEN drop >= 0 ELSE drop <= 0

\* Fully specified networks a caller can equally pass whose values
\* contradict each other: in the triangle the flow circulates 1 -> 2 -> 3
\* -> 1 although the head cannot drop all the way round; in the two loops
\* the flow of pipe 3 runs against its head drop.
Contradictory == {
    [topo |-> 3, flows |-> <<10000000, 10000000, 10000000>>,
                 heads |-> <<50000000, 30000000, 10000000>>],
    [topo |-> 4, flows |-> <<20000000, 10000000, 10000000, 0, 0>>,
                 heads |-> <<40000000, 20000000, 10000000, 10000000>>]
}

Fields(tr) ==
    {<<"flow", i>> : i \in DOMAIN TruthPipes(tr)}
      \cup {<<"hl", i>> : i \in DOMAIN TruthPipes(tr)}
      \cup {<<"demand", n>> : n \in 1..Topologies[tr.topo].n}

InitPuzzle ==
    \E tr \in {t \in Truths : Consistent(t)}
                 \cup {t \in Contradictory : ~Consistent(t)} :
      \E hidden \in {h \in SUBSET Fields(tr) : Cardinality(h) <= MaxHidden} :
        /\ method = "puzzle"
        /\ truth = tr
        /\ objPipes = [i \in DOMAIN TruthPipes(tr) |->
             [StdPipe(i, TruthPipes(tr)[i], None) EXCEPT
                !.given_flow = IF <<"flow", i>> \in hidden THEN None
                               ELSE Some(tr.flows[i]),
                !.given_head_loss = IF <<"hl", i>> \in hidden THEN None
                                    ELSE Some(TruthHl(tr, i))]]
        /\ objNodes = [n \in 1..Topologies[tr.topo].n |->
             [id |-> n,
              demand |-> IF <<"demand", n>> \in hidden THEN None
                         ELSE Some(TruthDemand(tr, n))]]

Init ==
    /\ (InitDarcy \/ InitPuzzle)
    /\ data_pipes = [i \in DOMAIN objPipes |-> i]
    /\ data_nodes = [i \in DOMAIN objNodes |-> i]
    /\ callerPipes = objPipes
    /\ callerNodes = objNodes
    /\ pc = "start"
    /\ pipes = <<>>
    /\ nodes = <<>>
    /\ loops = <<>>
    /\ pipe_flows = <<>>
    /\ pipe_K = <<>>
    /\ init_flows = <<>>
    /\ sinks = <<>>
    /\ sources = <<>>
    /\ remaining_supply = <<>>
    /\ sink_i = 0
    /\ source_i = 0
    /\ demand_needed = 0
    /\ history = <<>>
    /\ converged = FALSE
    /\ solved_flows = <<>>
    /\ solved_hl = <<>>
    /\ solved_demands = <<>>
    /\ changed = FALSE
    /\ iterations = 0
    /\ result = [kind |-> "none"]

---------------------------------------------------------------------------
(* validate_and_fix_network *)

DEFAULT_LENGTH == 1       \* 1.0 m
DEFAULT_DIAMETER == 100   \* 1.0 m
DEFAULT_ROUGHNESS == 2    \* 0.02
BALANCE_TOL == 10         \* 1e-6 m^3/s

\* lines 52-54: a missing or non-positive property takes its default
FixPipe(p, m) ==
    IF m = "darcy"
    THEN [p EXCEPT
            !.length = IF IsNone(p.length) \/ Val(p.length) <= 0
                       THEN Some(DEFAULT_LENGTH) ELSE p.length,
            !.diameter = IF IsNone(p.diameter) \/ Val(p.diameter) <= 0
                         THEN Some(DEFAULT_DIAMETER) ELSE p.diameter,
            !.roughness = IF IsNone(p.roughness) \/ Val(p.roughness) <= 0
                          THEN Some(DEFAULT_ROUGHNESS) ELSE p.roughness]
    ELSE p

\* lines 62-63: a missing demand becomes 0.0
FillDemand(n) == IF IsNone(n.demand) THEN [n EXCEPT !.demand = Some(0)] ELSE n

\* Python's max(seq, key): the first element of idx whose key is largest
\* (idx lists references in ascending order)
FirstMax(idx, key) ==
    CHOOSE i \in Range(idx) :
        /\ \A j \in Range(idx) : key[j] <= key[i]
        /\ \A j \in Range(idx) : key[j] = key[i] => i <= j

\* lines 68-72: the node whose demand absorbs the imbalance (0 when the
\* node list is empty); ns is the heap after the demands were filled
BalanceTarget(ns, refs) ==
    LET source_nodes == SelectSeq(refs, LAMBDA r : Val(ns[r].demand) > 0)
    IN  IF source_nodes # <<>>
        THEN FirstMax(source_nodes,
                      [r \in Range(refs) |-> Val(ns[r].demand)])
        ELSE IF refs # <<>>
        THEN FirstMax(refs, [r \in Range(refs) |-> Abs(Val(ns[r].demand))])
        ELSE 0

\* the balancing with the imbalance added to the target
BalanceNodes_Added(ns, refs, m) ==
    IF m = "darcy"
    THEN LET filled == [r \in DOMAIN ns |->
                          IF r \in Range(refs) THEN FillDemand(ns[r]) ELSE ns[r]]
             total_demand == SeqSum([i \in DOMAIN refs |->
                                       Val(filled[refs[i]].demand)])
             max_node == BalanceTarget(filled, refs)
         IN  IF Abs(total_demand) > BALANCE_TOL /\ max_node # 0
             THEN [filled EXCEPT ![max_node].demand =
                                    Some(Val(@) + total_demand)]
             ELSE filled
    ELSE ns

\* lines 60-77 on the heap of nodes
BalanceNodes(ns, refs, m) ==
    IF m = "darcy"
    THEN LET filled == [r \in DOMAIN ns |->
                          IF r \in Range(refs) THEN FillDemand(ns[r]) ELSE ns[r]]
             total_demand == SeqSum([i \in DOMAIN refs |->
                                       Val(filled[refs[i]].demand)])
             max_node == BalanceTarget(filled, refs)
         IN  IF Abs(total_demand) > BALANCE_TOL /\ max_node # 0
             THEN [filled EXCEPT ![max_node].demand =
                                    Some(Val(@) - total_demand)]
             ELSE filled
    ELSE ns

\* data.pipes.copy(), data.nodes.copy(): a new list of the same objects
ListCopy(l) == l

\* line 435: validate_and_fix_network(data.nodes.copy(), data.pipes.copy())
Validate ==
    /\ pc = "start"
    /\ pipes' = ListCopy(data_pipes)
    /\ nodes' = ListCopy(data_nodes)
    /\ objPipes' = [r \in DOMAIN objPipes |->
                      IF r \in Range(pipes') THEN FixPipe(objPipes[r], method)
                      ELSE objPipes[r]]
    /\ objNodes' = BalanceNodes(objNodes, nodes', method)
    /\ pc' = IF method = "puzzle" THEN "puzzle_setup" ELSE "graph"
    /\ UNCHANGED <<method, data_pipes, data_nodes, callerPipes, callerNodes,
                   truth, loops, pipe_flows, pipe_K, init_flows, sinks,
                   sources, remaining_supply, sink_i, source_i, demand_needed,
                   history, converged, solved_flows, solved_hl, solved_demands,
                   changed, iterations, result>>

---------------------------------------------------------------------------
(* The networkx graph: G = nx.Graph(); G.add_edge(start, end, id=p.id) *)

\* the list of PipeInput objects behind a list of references
PipeObjs(refs) == [i \in DOMAIN refs |-> objPipes[refs[i]]]
NodeObjs(refs) == [i \in DOMAIN refs |-> objNodes[refs[i]]]

AddUnique(seq, x) == IF x \in Range(seq) THEN seq ELSE Append(seq, x)

\* One add_edge: nodes and neighbours keep their insertion order, and the
\* edge's id attribute is overwritten when the edge is already there.
AddEdge(g, p) ==
    LET u == p.start_node
        v == p.end_node
        ns == AddUnique(AddUnique(g.nodes, u), v)
        Old(x) == IF x \in DOMAIN g.adj THEN g.adj[x] ELSE <<>>
        WithV(x) == IF x = u THEN AddUnique(Old(x), v) ELSE Old(x)
    IN  [nodes |-> ns,
         adj |-> [x \in Range(ns) |->
                    IF x = v THEN AddUnique(WithV(x), u) ELSE WithV(x)],
         id |-> [e \in DOMAIN g.id \cup {<<u, v>>, <<v, u>>} |->
                    IF e \in {<<u, v>>, <<v, u>>} THEN p.id ELSE g.id[e]]]

RECURSIVE AddEdges(_, _)
AddEdges(g, ps) ==
    IF ps = <<>> THEN g ELSE AddEdges(AddEdge(g, Head(ps)), Tail(ps))

EmptyGraph == [nodes |-> <<>>, adj |-> <<>>, id |-> <<>>]

\* lines 442-444 (and 149-157, 249-250): the graph of the pipes
GraphOf(ps) == AddEdges(EmptyGraph, ps)

RECURSIVE ReachFrom(_, _)
ReachFrom(g, seen) ==
    LET more == UNION {Range(g.adj[x]) : x \in seen}
    IN  IF more \subseteq seen THEN seen ELSE ReachFrom(g, seen \cup more)

\* nx.is_connected(G) for a graph with at least one node
IsConnected(g) == ReachFrom(g, {g.nodes[1]}) = Range(g.nodes)

\* nx.cycle_basis: the cycle closed by the edge z - nbr
RECURSIVE CyclePath(_, _, _, _)
CyclePath(pred, pn, p, cycle) ==
    IF p \in pn THEN Append(cycle, p)
    ELSE CyclePath(pred, pn, pred[p], Append(cycle, p))

\* nx.cycle_basis: the loop over the neighbours of z
RECURSIVE CBNeighbours(_, _, _, _)
CBNeighbours(z, zused, nbrs, st) ==
    IF nbrs = <<>> THEN st
    ELSE LET nbr == Head(nbrs)
             st1 ==
               IF nbr \notin DOMAIN st.used
               THEN [st EXCEPT !.pred = (nbr :> z) @@ @,
                               !.stack = Append(@, nbr),
                               !.used = (nbr :> {z}) @@ @]
               ELSE IF nbr = z
               THEN [st EXCEPT !.cycles = Append(@, <<z>>)]
               ELSE IF nbr \notin zused
               THEN [st EXCEPT
                       !.cycles = Append(@, CyclePath(st.pred, st.used[nbr],
                                                      st.pred[z], <<nbr, z>>)),
                       !.used = [@ EXCEPT ![nbr] = @ \cup {z}]]
               ELSE st
         IN  CBNeighbours(z, zused, Tail(nbrs), st1)

\* nx.cycle_basis: the walk of one component's spanning tree
RECURSIVE CBStack(_, _)
CBStack(g, st) ==
    IF st.stack = <<>> THEN st
    ELSE LET z == st.stack[Len(st.stack)]
             popped == [st EXCEPT !.stack = SubSeq(@, 1, Len(@) - 1)]
         IN  CBStack(g, CBNeighbours(z, st.used[z], g.adj[z], popped))

\* nx.cycle_basis: the loop over the connected components; root = 0 is
\* root=None, which takes the last node left (gnodes.popitem())
RECURSIVE CBComponents(_, _, _, _)
CBComponents(g, gnodes, root, cycles) ==
    IF gnodes = <<>> THEN cycles
    ELSE LET r == IF root = 0 THEN gnodes[Len(gnodes)] ELSE root
             st == CBStack(g, [stack |-> <<r>>, pred |-> (r :> r),
                               used |-> (r :> {}), cycles |-> cycles])
             rest == SelectSeq(gnodes, LAMBDA x : x \notin DOMAIN st.pred)
         IN  CBComponents(g, rest, 0, st.cycles)

\* lines 452, 252: nx.cycle_basis(G), started at root
cycle_basis(g, root) == CBComponents(g, g.nodes, root, <<>>)

\* the roots a cycle basis of g can start from (0 for the null graph)
Roots(g) == IF g.nodes = <<>> THEN {0} ELSE Range(g.nodes)

RECURSIVE PathsFrom(_, _, _, _)
PathsFrom(g, u, t, seen) ==
    IF u = t THEN {<<t>>}
    ELSE UNION {{<<u>> \o q : q \in PathsFrom(g, v, t, seen \cup {v})} :
                  v \in Range(g.adj[u]) \ seen}

\* line 197: the paths nx.shortest_path(G, source, sink) can return
ShortestPaths(g, s, t) ==
    LET all == PathsFrom(g, s, t, {s})
    IN  {q \in all : \A r \in all : Len(q) <= Len(r)}

---------------------------------------------------------------------------
(* solve_network, darcy mode: graph, connectivity, loops *)

TINY == 0             \* 1e-9 m^3/s, below the flow quantum
MAX_ITERATIONS == 100
TOLERANCE == 10       \* 1e-6 m^3/s

G == GraphOf(PipeObjs(pipes))

\* line 163: node_demands, by node id (the last node of an id wins)
NodeDemand(id) ==
    LET hits == SelectSeq(NodeObjs(nodes), LAMBDA n : n.id = id)
    IN  Val(hits[Len(hits)].demand)

NodeIds == [i \in DOMAIN nodes |-> objNodes[nodes[i]].id]

\* sorted(ids, key, reverse=True): descending, equal keys in list order
RECURSIVE SortedDesc(_, _)
SortedDesc(ids, key) ==
    IF ids = <<>> THEN <<>>
    ELSE LET pos == CHOOSE i \in DOMAIN ids :
                      /\ \A j \in DOMAIN ids : key[ids[j]] <= key[ids[i]]
                      /\ \A j \in DOMAIN ids :
                           key[ids[j]] = key[ids[i]] => i <= j
             rest == [j \in 1..(Len(ids) - 1) |->
                        IF j < pos THEN ids[j] ELSE ids[j + 1]]
         IN  <<ids[pos]>> \o SortedDesc(rest, key)

\* lines 164-168
Sources ==
    SortedDesc(SelectSeq(NodeIds, LAMBDA id : NodeDemand(id) > TINY),
               [id \in Range(NodeIds) |-> NodeDemand(id)])
\* lines 169-172: ascending demand is descending -demand
Sinks ==
    SortedDesc(SelectSeq(NodeIds, LAMBDA id : NodeDemand(id) < -TINY),
               [id \in Range(NodeIds) |-> -NodeDemand(id)])

Returned(r) ==
    /\ pc' = "done"
    /\ result' = r

\* lines 447-448: the structured error
NotConnectedError ==
    [kind |-> "error",
     error |-> "Network is not fully connected. Check pipe definitions."]

\* an exception that leaves solve_network
Raised(what) == [kind |-> "raised", error |-> what]

\* lines 441-462 and 149-176: build G, check connectivity, find the loops and
\* enter initialize_flows_robust
BuildGraph ==
    /\ pc = "graph"
    /\ \/ /\ G.nodes = <<>>
          \* nx.is_connected raises on the null graph
          /\ Returned(Raised("NetworkXPointlessConcept"))
          /\ UNCHANGED <<loops, pipe_flows, sinks, sources, remaining_supply,
                         sink_i, source_i, demand_needed>>
       \/ /\ G.nodes # <<>>
          /\ ~IsConnected(G)
          /\ Returned(NotConnectedError)
          /\ UNCHANGED <<loops, pipe_flows, sinks, sources, remaining_supply,
                         sink_i, source_i, demand_needed>>
       \/ /\ G.nodes # <<>>
          /\ IsConnected(G)
          /\ \E root \in Roots(G) : loops' = cycle_basis(G, root)
          /\ pipe_flows' = [id \in {p.id : p \in Range(PipeObjs(pipes))} |-> 0]
          /\ sources' = Sources
          /\ sinks' = Sinks
          /\ remaining_supply' = [id \in Range(Sources) |-> NodeDemand(id)]
          /\ sink_i' = 1
          /\ source_i' = 1
          /\ demand_needed' = IF Sinks = <<>> THEN 0 ELSE -NodeDemand(Sinks[1])
          /\ pc' = "init"
          /\ UNCHANGED result
    /\ UNCHANGED <<method, data_pipes, data_nodes, objPipes, objNodes,
                   callerPipes, callerNodes, truth, pipes, nodes, pipe_K,
                   init_flows, history, converged, solved_flows, solved_hl,
                   solved_demands, changed, iterations>>

---------------------------------------------------------------------------
(* initialize_flows_robust: the transfers from sources to sinks *)

\* lines 200-211: push flow_amount along the path
RECURSIVE ApplyPath(_, _, _, _)
ApplyPath(g, flows, path, flow_amount) ==
    IF Len(path) < 2 THEN flows
    ELSE LET u == path[1]
             v == path[2]
             pipe_id == g.id[<<u, v>>]
             pipe_def == objPipes[pipe_id]
             next == IF pipe_def.start_node = u
                     THEN [flows EXCEPT ![pipe_id] = @ + flow_amount]
                     ELSE [flows EXCEPT ![pipe_id] = @ - flow_amount]
         IN  ApplyPath(g, next, Tail(path), flow_amount)

Min(a, b) == IF a <= b THEN a ELSE b

\* The position (sink index, source index, demand still needed) of the next
\* transfer, from the position si, so, dn of the loops of lines 179-193: a
\* satisfied sink breaks to the next sink, an exhausted source is skipped.
RECURSIVE NextTransfer(_, _, _)
NextTransfer(si, so, dn) ==
    IF si > Len(sinks) THEN [si |-> si, so |-> so, dn |-> dn]
    ELSE IF so > Len(sources) \/ dn <= TINY
    THEN NextTransfer(si + 1, 1,
                      IF si + 1 > Len(sinks) THEN 0
                      ELSE -NodeDemand(sinks[si + 1]))
    ELSE IF remaining_supply[sources[so]] <= TINY
            \/ Min(dn, remaining_supply[sources[so]]) <= TINY
    THEN NextTransfer(si, so + 1, dn)
    ELSE [si |-> si, so |-> so, dn |-> dn]

\* lines 82-108: K of a pipe, provided or from the Darcy-Weisbach relation
\* K = 8 f L / (pi^2 g D^5), with pi^2 g = 96.8209 and, in the model's
\* units, K = 800000 f L / (968209 D^5)
calculate_resistance_coefficient(pipe) ==
    IF ~IsNone(pipe.resistance_k) /\ Val(pipe.resistance_k) > 0
    THEN Val(pipe.resistance_k)
    ELSE LET f == Val(pipe.roughness)
             L == Val(pipe.length)
             D == Val(pipe.diameter)
             overD5 == ((((((800000 * f * L) \div D) \div D) \div D) \div D) \div D)
         IN  RoundDiv(overD5, 968209)

\* lines 186-216: one transfer from the current source to the current sink
InitTransfer ==
    /\ pc = "init"
    /\ LET at == NextTransfer(sink_i, source_i, demand_needed)
       IN  /\ at.si <= Len(sinks)
           /\ LET sink_id == sinks[at.si]
                  source_id == sources[at.so]
                  flow_amount == Min(at.dn, remaining_supply[source_id])
              IN  \/ /\ {source_id, sink_id} \subseteq Range(G.nodes)
                     /\ \E path \in ShortestPaths(G, source_id, sink_id) :
                          pipe_flows' = ApplyPath(G, pipe_flows, path, flow_amount)
                     /\ remaining_supply' =
                          [remaining_supply EXCEPT ![source_id] = @ - flow_amount]
                     /\ demand_needed' = at.dn - flow_amount
                     /\ sink_i' = at.si
                     /\ source_i' = at.so + 1
                     /\ UNCHANGED <<pc, result>>
                  \/ /\ ~({source_id, sink_id} \subseteq Range(G.nodes))
                     \* nx.shortest_path raises NodeNotFound, which line 218
                     \* does not catch
                     /\ Returned(Raised("NodeNotFound"))
                     /\ UNCHANGED <<pipe_flows, remaining_supply, demand_needed,
                                    sink_i, source_i>>
    /\ UNCHANGED <<method, data_pipes, data_nodes, objPipes, objNodes,
                   callerPipes, callerNodes, truth, pipes, nodes, loops,
                   pipe_K, init_flows, sinks, sources, history, converged,
                   solved_flows, solved_hl, solved_demands, changed,
                   iterations>>

\* lines 222, 462-472: initialize_flows_robust returns; K of every pipe
InitReturn ==
    /\ pc = "init"
    /\ NextTransfer(sink_i, source_i, demand_needed).si > Len(sinks)
    /\ init_flows' = pipe_flows
    /\ pipe_K' = [id \in DOMAIN pipe_flows |->
                    calculate_resistance_coefficient(objPipes[id])]
    /\ sink_i' = Len(sinks) + 1
    /\ pc' = "iterate"
    /\ UNCHANGED <<method, data_pipes, data_nodes, objPipes, objNodes,
                   callerPipes, callerNodes, truth, pipes, nodes, loops,
                   pipe_flows, sinks, sources, remaining_supply, source_i,
                   demand_needed, history, converged, solved_flows, solved_hl,
                   solved_demands, changed, iterations, result>>

---------------------------------------------------------------------------
(* solve_network, darcy mode: the Hardy Cross iteration *)

EPSILON == 0          \* 1e-10 m^3/s, below the flow quantum
MIN_DERIVATIVE == 0   \* 1e-12 s/m^2, below the quantum of K * Q

\* line 125
calculate_head_loss(K, Q) == K * Q * Abs(Q)
\* line 134
calculate_head_loss_derivative(K, Q) == 2 * K * (Abs(Q) + EPSILON)

\* lines 490-511: the pipes of a loop and their direction in the loop; an
\* edge the graph does not have is skipped (line 496)
LoopPipeInfo(g, loop_nodes) ==
    LET num_nodes == Len(loop_nodes)
        Edge(i) == <<loop_nodes[i], loop_nodes[(i % num_nodes) + 1]>>
        present == SelectSeq([i \in 1..num_nodes |-> i],
                             LAMBDA i : Edge(i) \in DOMAIN g.id)
    IN  [k \in DOMAIN present |->
           LET pipe_id == g.id[Edge(present[k])]
           IN  [pipe_id |-> pipe_id,
                loop_direction |->
                  IF objPipes[pipe_id].start_node = Edge(present[k])[1]
                  THEN 1 ELSE -1]]

\* lines 533-537: the Hardy Cross correction of one loop
DeltaQ(sum_head_loss, sum_derivative) ==
    IF sum_derivative > MIN_DERIVATIVE
    THEN RoundDiv(-sum_head_loss, sum_derivative)
    ELSE 0

\* the correction applied without the pipe's direction in the loop
RECURSIVE ApplyCorrection_NoDirection(_, _, _)
ApplyCorrection_NoDirection(flows, info, delta_Q) ==
    IF info = <<>> THEN flows
    ELSE ApplyCorrection_NoDirection(
           [flows EXCEPT ![info[1].pipe_id] = @ + delta_Q],
           Tail(info), delta_Q)

\* lines 544-551: the correction applied to every pipe of the loop
RECURSIVE ApplyCorrection(_, _, _)
ApplyCorrection(flows, info, delta_Q) ==
    IF info = <<>> THEN flows
    ELSE ApplyCorrection(
           [flows EXCEPT ![info[1].pipe_id] = @ + delta_Q * info[1].loop_direction],
           Tail(info), delta_Q)

\* sum over the loop of h_f (lines 514-522) for the flows given
LoopHeadLoss(info, K, flows) ==
    SeqSum([k \in DOMAIN info |->
              calculate_head_loss(K[info[k].pipe_id],
                                  flows[info[k].pipe_id] * info[k].loop_direction)])
LoopDerivative(info, K, flows) ==
    SeqSum([k \in DOMAIN info |->
              calculate_head_loss_derivative(K[info[k].pipe_id],
                                  flows[info[k].pipe_id] * info[k].loop_direction)])

\* lines 483-559: the loops of one iteration, in order, each on the flows
\* the loops before it left
RECURSIVE ProcessLoops(_, _, _, _, _)
ProcessLoops(g, flows, ls, max_correction, log) ==
    IF ls = <<>>
    THEN [flows |-> flows, max_correction |-> max_correction, loops |-> log]
    ELSE LET info == LoopPipeInfo(g, Head(ls))
             sum_head_loss == LoopHeadLoss(info, pipe_K, flows)
             sum_derivative == LoopDerivative(info, pipe_K, flows)
             delta_Q == DeltaQ(sum_head_loss, sum_derivative)
         IN  ProcessLoops(g, ApplyCorrection(flows, info, delta_Q), Tail(ls),
                          IF Abs(delta_Q) > max_correction
                          THEN Abs(delta_Q) ELSE max_correction,
                          Append(log, [loop_index |-> Len(log) + 1,
                                       sum_head_loss |-> sum_head_loss,
                                       sum_derivative |-> sum_derivative,
                                       delta_Q |-> delta_Q]))

\* the convergence test with <= for <
BelowTolerance_Inclusive(max_correction) == max_correction <= TOLERANCE

\* line 565
BelowTolerance(max_correction) == max_correction < TOLERANCE

\* lines 474-568: one iteration of the for loop
HCIterate ==
    /\ pc = "iterate"
    /\ Len(history) < MAX_ITERATIONS
    /\ LET r == ProcessLoops(G, pipe_flows, loops, 0, <<>>)
       IN  /\ pipe_flows' = r.flows
           /\ history' = Append(history,
                                [iteration |-> Len(history) + 1,
                                 loops |-> r.loops,
                                 max_correction |-> r.max_correction])
           /\ converged' = BelowTolerance(r.max_correction)
           /\ pc' = IF BelowTolerance(r.max_correction)
                       \/ Len(history) + 1 = MAX_ITERATIONS
                    THEN "results" ELSE "iterate"
    /\ UNCHANGED <<method, data_pipes, data_nodes, objPipes, objNodes,
                   callerPipes, callerNodes, truth, pipes, nodes, loops,
                   pipe_K, init_flows, sinks, sources, remaining_supply,
                   sink_i, source_i, demand_needed, solved_flows, solved_hl,
                   solved_demands, changed, iterations, result>>

\* results that report the magnitude of the flow
PipeResult_Magnitude(id) ==
    [pipe_id |-> id,
     flow |-> Round6(Abs(pipe_flows[id])),
     head_loss |-> RoundTo(Abs(calculate_head_loss(pipe_K[id], pipe_flows[id])),
                           1000),
     K |-> pipe_K[id]]

\* lines 574-599: one entry of results
PipeResult(id) ==
    [pipe_id |-> id,
     flow |-> Round6(pipe_flows[id]),
     head_loss |-> RoundTo(Abs(calculate_head_loss(pipe_K[id], pipe_flows[id])),
                           1000),
     K |-> pipe_K[id]]

\* lines 573-606
ReturnResults ==
    /\ pc = "results"
    /\ Returned([kind |-> "ok",
                 converged |-> converged,
                 iterations |-> Len(history),
                 results |-> [id \in DOMAIN pipe_flows |-> PipeResult(id)],
                 history |-> history])
    /\ UNCHANGED <<method, data_pipes, data_nodes, objPipes, objNodes,
                   callerPipes, callerNodes, truth, pipes, nodes, loops,
                   pipe_flows, pipe_K, init_flows, sinks, sources,
                   remaining_supply, sink_i, source_i, demand_needed, history,
                   converged, solved_flows, solved_hl, solved_demands, changed,
                   iterations>>

---------------------------------------------------------------------------
(* solve_puzzle_network *)

PipeIds == {q.id : q \in Range(PipeObjs(pipes))}

\* the cap without the factor and the margin
MaxIter_PipeCount == Len(pipes)

\* line 259
MaxIter == Len(pipes) * 2 + 5

\* lines 229-259: the known values, the graph and its loops
PuzzleSetup ==
    /\ pc = "puzzle_setup"
    /\ solved_flows' = [id \in PipeIds |-> objPipes[id].given_flow]
    /\ solved_hl' = [id \in PipeIds |-> objPipes[id].given_head_loss]
    /\ solved_demands' = [id \in Range(NodeIds) |->
                            objNodes[CHOOSE r \in Range(nodes) :
                                       objNodes[r].id = id].demand]
    /\ \E root \in Roots(G) : loops' = cycle_basis(G, root)
    /\ changed' = TRUE
    /\ iterations' = 0
    /\ pc' = "puzzle_loop"
    /\ UNCHANGED <<method, data_pipes, data_nodes, objPipes, objNodes,
                   callerPipes, callerNodes, truth, pipes, nodes, pipe_flows,
                   pipe_K, init_flows, sinks, sources, remaining_supply,
                   sink_i, source_i, demand_needed, history, converged,
                   result>>

\* lines 243-246: adj[node_id], in the order the pipes are appended
RECURSIVE Connections(_, _)
Connections(node_id, ps) ==
    IF ps = <<>> THEN <<>>
    ELSE LET q == Head(ps)
         IN  (IF q.start_node = node_id THEN <<[pid |-> q.id, dir |-> 1]>>
              ELSE <<>>)
             \o (IF q.end_node = node_id THEN <<[pid |-> q.id, dir |-> -1]>>
                 ELSE <<>>)
             \o Connections(node_id, Tail(ps))

\* lines 282-283, 303-304: the known flows on one side of the node
SumDir(connections, flows, dir) ==
    SeqSum([k \in DOMAIN connections |->
              IF ~IsNone(flows[connections[k].pid]) /\ connections[k].dir = dir
              THEN Val(flows[connections[k].pid]) ELSE 0])

\* the unknown flow solved with the coefficient of the wrong sign
SolveUnknownFlow_WrongSign(sum_in, sum_out, demand, unk) ==
    LET rhs == sum_out - sum_in - demand
        unk_coeff == unk.dir
    IN  IF unk_coeff = 1 THEN rhs ELSE -rhs

\* lines 292-295: the flow of the one unknown pipe of a node
SolveUnknownFlow(sum_in, sum_out, demand, unk) ==
    LET rhs == sum_out - sum_in - demand
        unk_coeff == -unk.dir
    IN  IF unk_coeff = 1 THEN rhs ELSE -rhs

\* lines 267-308: one node of the mass-balance sweep; st is
\* [flows, demands, changed]
SolveNode(node_id, st) ==
    LET connections == Connections(node_id, PipeObjs(pipes))
        unknown_pipes == SelectSeq(connections,
                                   LAMBDA c : IsNone(st.flows[c.pid]))
        sum_in == SumDir(connections, st.flows, -1)
        sum_out == SumDir(connections, st.flows, 1)
    IN  IF ~IsNone(st.demands[node_id])
        THEN IF Len(unknown_pipes) = 1
             THEN [st EXCEPT
                     !.flows[unknown_pipes[1].pid] =
                        Some(SolveUnknownFlow(sum_in, sum_out,
                                              Val(st.demands[node_id]),
                                              unknown_pipes[1])),
                     !.changed = TRUE]
             ELSE st
        ELSE IF Len(unknown_pipes) = 0
             THEN [st EXCEPT !.demands[node_id] = Some(sum_out - sum_in),
                             !.changed = TRUE]
             ELSE st

RECURSIVE SolveNodes(_, _)
SolveNodes(ids, st) ==
    IF ids = <<>> THEN st ELSE SolveNodes(Tail(ids), SolveNode(Head(ids), st))

\* lines 327-333: the first pipe joining u and v, with its direction in the
\* loop; <<>> when there is none
FindPipe(u, v, ps) ==
    LET hits == SelectSeq(ps, LAMBDA q :
                   \/ (q.start_node = u /\ q.end_node = v)
                   \/ (q.start_node = v /\ q.end_node = u))
    IN  IF hits = <<>> THEN <<>>
        ELSE <<[pid |-> hits[1].id,
                dir |-> IF hits[1].start_node = u /\ hits[1].end_node = v
                        THEN 1 ELSE -1]>>

FlowSign(q) == IF q >= 0 THEN 1 ELSE -1

\* lines 323-355: walk the loop from edge i on; w is
\* [valid_loop, unknown_hl_pipes, current_sum]
RECURSIVE WalkLoop(_, _, _, _, _)
WalkLoop(loop, i, flows, hl, w) ==
    IF i > Len(loop) THEN w
    ELSE LET found == FindPipe(loop[i], loop[(i % Len(loop)) + 1],
                               PipeObjs(pipes))
         IN  IF found = <<>> THEN [w EXCEPT !.valid_loop = FALSE]
             ELSE LET pid == found[1].pid
                      p_dir == found[1].dir
                  IN  IF ~IsNone(hl[pid]) /\ ~IsNone(flows[pid])
                      THEN WalkLoop(loop, i + 1, flows, hl,
                             [w EXCEPT !.current_sum =
                                @ + Abs(Val(hl[pid]))
                                    * FlowSign(Val(flows[pid])) * p_dir])
                      ELSE IF ~IsNone(hl[pid])
                      THEN [w EXCEPT !.valid_loop = FALSE]
                      ELSE WalkLoop(loop, i + 1, flows, hl,
                             [w EXCEPT !.unknown_hl_pipes =
                                Append(@, [pid |-> pid, dir |-> p_dir])])

\* lines 365-387: the magnitude assigned to the one unknown head loss
SolveUnknownHl(current_sum, p_dir_unk, q) ==
    LET req_signed_hf == IF p_dir_unk = 1 THEN -current_sum ELSE current_sum
        calc_mag == IF FlowSign(q) = 1 THEN req_signed_hf ELSE -req_signed_hf
    IN  Abs(calc_mag)

\* lines 357-388: whether the loop's one unknown head loss is assigned
Resolvable(w, flows) ==
    /\ w.valid_loop
    /\ Len(w.unknown_hl_pipes) = 1
    /\ ~IsNone(flows[w.unknown_hl_pipes[1].pid])
    /\ Abs(Val(flows[w.unknown_hl_pipes[1].pid])) > TINY

\* lines 311-388: one loop of the energy-balance sweep; st is [hl, changed]
SolveLoop(loop, flows, st) ==
    LET w == WalkLoop(loop, 1, flows, st.hl,
                      [valid_loop |-> TRUE, unknown_hl_pipes |-> <<>>,
                       current_sum |-> 0])
    IN  IF Resolvable(w, flows)
        THEN [st EXCEPT
                !.hl[w.unknown_hl_pipes[1].pid] =
                   Some(SolveUnknownHl(w.current_sum, w.unknown_hl_pipes[1].dir,
                                       Val(flows[w.unknown_hl_pipes[1].pid]))),
                !.changed = TRUE]
        ELSE st

RECURSIVE SolveLoops(_, _, _)
SolveLoops(ls, flows, st) ==
    IF ls = <<>> THEN st
    ELSE SolveLoops(Tail(ls), flows, SolveLoop(Head(ls), flows, st))

\* line 261: the while condition
LoopContinues(ch, it) == ch /\ it < MaxIter

\* lines 261-388: one pass of the while loop
PuzzlePass ==
    /\ pc = "puzzle_loop"
    /\ LoopContinues(changed, iterations)
    /\ LET a == SolveNodes(NodeIds, [flows |-> solved_flows,
                                     demands |-> solved_demands,
                                     changed |-> FALSE])
           b == SolveLoops(loops, a.flows,
                           [hl |-> solved_hl, changed |-> a.changed])
       IN  /\ solved_flows' = a.flows
           /\ solved_demands' = a.demands
           /\ solved_hl' = b.hl
           /\ changed' = b.changed
    /\ iterations' = iterations + 1
    /\ UNCHANGED <<method, data_pipes, data_nodes, objPipes, objNodes,
                   callerPipes, callerNodes, truth, pc, pipes, nodes, loops,
                   pipe_flows, pipe_K, init_flows, sinks, sources,
                   remaining_supply, sink_i, source_i, demand_needed, history,
                   converged, result>>

\* lines 392-410: one entry of results
PuzzlePipeResult(id) ==
    LET q == solved_flows[id]
        hf == solved_hl[id]
    IN  [pipe_id |-> id,
         flow |-> IF ~IsNone(q) THEN Round2(Val(q)) ELSE 0,
         head_loss |-> IF ~IsNone(hf) THEN Round2(Val(hf)) ELSE 0,
         flow_direction |-> IF IsNone(q) THEN "unknown"
                            ELSE IF Val(q) >= 0 THEN "start->end"
                            ELSE "end->start"]

\* lines 413-419: one entry of node_results
PuzzleNodeResult(r) ==
    LET d == solved_demands[objNodes[r].id]
    IN  [node_id |-> objNodes[r].id,
         demand |-> IF ~IsNone(d) THEN Some(Round2(Val(d))) ELSE None,
         is_solved |-> ~IsNone(d) /\ IsNone(objNodes[r].demand)]

\* lines 390-427: the while loop has ended
PuzzleReturn ==
    /\ pc = "puzzle_loop"
    /\ ~LoopContinues(changed, iterations)
    /\ Returned([kind |-> "ok",
                 converged |-> TRUE,
                 iterations |-> iterations,
                 results |-> [id \in PipeIds |-> PuzzlePipeResult(id)],
                 node_results |-> [i \in DOMAIN nodes |->
                                     PuzzleNodeResult(nodes[i])],
                 history |-> <<>>])
    /\ UNCHANGED <<method, data_pipes, data_nodes, objPipes, objNodes,
                   callerPipes, callerNodes, truth, pipes, nodes, loops,
                   pipe_flows, pipe_K, init_flows, sinks, sources,
                   remaining_supply, sink_i, source_i, demand_needed, history,
                   converged, solved_flows, solved_hl, solved_demands, changed,
                   iterations>>

Next ==
    \/ Validate
    \/ BuildGraph
    \/ InitTransfer
    \/ InitReturn
    \/ HCIterate
    \/ ReturnResults
    \/ PuzzleSetup
    \/ PuzzlePass
    \/ PuzzleReturn

Spec == Init /\ [][Next]_vars

---------------------------------------------------------------------------
(* The properties checked *)

\* signed flow leaving node id minus signed flow entering it
NetOutflow(id, flows) ==
    LET ps == PipeObjs(pipes)
    IN  SeqSum([k \in DOMAIN ps |->
                  IF ps[k].start_node = id THEN flows[ps[k].id] ELSE 0])
        - SeqSum([k \in DOMAIN ps |->
                    IF ps[k].end_node = id THEN flows[ps[k].id] ELSE 0])

\* the network of the supplied nodes joined by the supplied pipes: the
\* component of a node, and whether there is exactly one component
ComponentOf(id) ==
    IF id \in Range(G.nodes) THEN ReachFrom(G, {id}) ELSE {id}
AllNodes == Range(NodeIds) \cup Range(G.nodes)
Components == {ComponentOf(id) : id \in AllNodes}
NetworkConnected == Cardinality(Components) = 1

TotalDemand ==
    SeqSum([i \in DOMAIN nodes |-> Val(objNodes[nodes[i]].demand)])

AfterInitOrIteration ==
    /\ method = "darcy"
    /\ pc \in {"iterate", "results"}
    /\ NetworkConnected

\* C1 as stated: in darcy mode, after initialize_flows_robust returns and
\* after every Hardy Cross iteration, at every node of a connected network
\* the flow leaving minus the flow entering equals the node's validated
\* demand.
C1_Original ==
    AfterInitOrIteration =>
        \A i \in DOMAIN nodes :
            NetOutflow(objNodes[nodes[i]].id, pipe_flows)
                = Val(objNodes[nodes[i]].demand)

\* C1 (amended): in darcy mode, after initialize_flows_robust returns and
\* after every Hardy Cross iteration, at every node of a connected network
\* the flow leaving minus the flow entering differs from the node's
\* validated demand by no more than the imbalance validation leaves in the
\* demands, which is at most 1e-6 (it equals the demand when they sum to
\* 0), and the iterations leave it as initialize_flows_robust left it.
C1_Continuity ==
    AfterInitOrIteration =>
        /\ Abs(TotalDemand) <= BALANCE_TOL
        /\ \A i \in DOMAIN nodes :
              /\ Abs(NetOutflow(objNodes[nodes[i]].id, pipe_flows)
                     - Val(objNodes[nodes[i]].demand)) <= Abs(TotalDemand)
              /\ NetOutflow(objNodes[nodes[i]].id, pipe_flows)
                   = NetOutflow(objNodes[nodes[i]].id, init_flows)

\* a connected network with a loop, after a second iteration, the first of
\* which corrected a loop flow
C1_Witness ==
    /\ AfterInitOrIteration
    /\ TotalDemand = 0
    /\ Len(history) >= 2
    /\ history[1].max_correction > 0

DarcyReturned ==
    /\ method = "darcy"
    /\ pc = "done"
    /\ result.kind = "ok"

\* C2: after any call of solve_network every field of every pipe and node
\* object the caller passed in has the value it had before the call.
C2_InputNotMutated ==
    pc = "done" => (objPipes = callerPipes /\ objNodes = callerNodes)

TreeSolved == DarcyReturned /\ NetworkConnected /\ loops = <<>>

\* C3 as stated: for a connected darcy network with an empty loop basis the
\* reported iteration count is 0 and every pipe's reported flow equals the
\* flow assigned by initialize_flows_robust.
C3_Original ==
    TreeSolved =>
        /\ result.iterations = 0
        /\ \A id \in DOMAIN init_flows : result.results[id].flow = init_flows[id]

\* C3 (amended): for a connected darcy network with an empty loop basis
\* solve_network performs one pass of the Hardy Cross loop, which corrects
\* no loop: the reported iteration count is 1, converged is true, and every
\* pipe's reported flow is the flow assigned by initialize_flows_robust,
\* rounded to 6 decimals.
C3_TreeOnePass ==
    TreeSolved =>
        /\ result.iterations = 1
        /\ result.converged
        /\ result.history[1].loops = <<>>
        /\ pipe_flows = init_flows
        /\ \A id \in DOMAIN init_flows :
              result.results[id].flow = Round6(init_flows[id])

\* a tree whose pipes carry flow, one of them against its definition
C3_Witness ==
    /\ TreeSolved
    /\ \E id \in DOMAIN init_flows : init_flows[id] < 0
    /\ \E id \in DOMAIN init_flows : init_flows[id] > 0

\* C4: in darcy mode a network of two or more connected components is
\* answered with an error result and no numeric flows.
C4_DisconnectedIsError ==
    (method = "darcy" /\ pc = "done" /\ Cardinality(Components) >= 2)
        => result.kind = "error"

\* C5: for an input with zero pipes or with disconnected components, in
\* either mode, solve_network returns a value and does not raise.
C5_NeverRaises ==
    (pc = "done" /\ (pipes = <<>> \/ Cardinality(Components) >= 2))
        => result.kind # "raised"

\* the independent loops with the signed head loss summed around each, for
\* the final flows
LoopResidual(loop_nodes) ==
    LoopHeadLoss(LoopPipeInfo(G, loop_nodes), pipe_K, pipe_flows)

\* C6: for every darcy solve that returns converged = true, the signed head
\* loss summed around every loop of the basis is within 1e-4 m (1000 quanta
\* of head) of zero.
C6_ConvergedEnergyBalance ==
    (DarcyReturned /\ result.converged) =>
        \A k \in DOMAIN loops : Abs(LoopResidual(loops[k])) <= 1000

PuzzleReturned == method = "puzzle" /\ pc = "done"

\* C7: puzzle round trip from a consistent network: every flow, head loss
\* and demand the solver holds as solved is the original value, and the
\* value reported for it is within 1e-2 (100000 quanta) of the original.
C7_RoundTrip ==
    (PuzzleReturned /\ Consistent(truth)) =>
        /\ \A id \in PipeIds :
              /\ ~IsNone(solved_flows[id]) =>
                    /\ Val(solved_flows[id]) = truth.flows[id]
                    /\ result.results[id].flow_direction # "unknown"
                    /\ Abs(result.results[id].flow - truth.flows[id]) <= 100000
              /\ ~IsNone(solved_hl[id]) =>
                    /\ Val(solved_hl[id]) = TruthHl(truth, id)
                    /\ Abs(result.results[id].head_loss - TruthHl(truth, id))
                         <= 100000
        /\ \A i \in DOMAIN nodes :
              ~IsNone(result.node_results[i].demand) =>
                    /\ solved_demands[objNodes[nodes[i]].id]
                         = Some(TruthDemand(truth, objNodes[nodes[i]].id))
                    /\ Abs(Val(result.node_results[i].demand)
                           - TruthDemand(truth, objNodes[nodes[i]].id)) <= 100000

\* a hidden flow, a hidden head loss and a hidden demand were all deduced
C7_Witness ==
    /\ PuzzleReturned
    /\ Consistent(truth)
    /\ \E id \in PipeIds :
          IsNone(callerPipes[id].given_flow) /\ ~IsNone(solved_flows[id])
    /\ \E id \in PipeIds :
          IsNone(callerPipes[id].given_head_loss) /\ ~IsNone(solved_hl[id])
    /\ \E i \in DOMAIN nodes : result.node_results[i].is_solved

InputDemand(r) ==
    IF IsNone(callerNodes[r].demand) THEN 0 ELSE Val(callerNodes[r].demand)
InputTotal == SeqSum([i \in DOMAIN data_nodes |-> InputDemand(data_nodes[i])])

\* the node the balancing adjusts: the first node of the largest positive
\* demand, or a node of the largest absolute demand when none is positive
IsAdjustmentTarget(r) ==
    IF \E j \in Range(data_nodes) : InputDemand(j) > 0
    THEN /\ InputDemand(r) > 0
         /\ \A j \in Range(data_nodes) : InputDemand(j) <= InputDemand(r)
         /\ \A j \in Range(data_nodes) :
               InputDemand(j) = InputDemand(r) => r <= j
    ELSE \A j \in Range(data_nodes) : Abs(InputDemand(j)) <= Abs(InputDemand(r))

Validated == method = "darcy" /\ pc # "start" /\ nodes # <<>>

\* C9: in darcy mode with a non-empty node list, after
\* validate_and_fix_network the demands sum to zero within 1e-6, and when
\* the input total exceeded 1e-6 in absolute value only the adjustment
\* target's demand changed, by the subtraction of the total imbalance.
C9_Balanced ==
    Validated =>
        /\ Abs(TotalDemand) <= 10
        /\ Abs(InputTotal) <= 10 =>
              \A r \in Range(nodes) : Val(objNodes[r].demand) = InputDemand(r)
        /\ Abs(InputTotal) > 10 =>
              \E t \in Range(nodes) :
                  /\ IsAdjustmentTarget(t)
                  /\ Val(objNodes[t].demand) = InputDemand(t) - InputTotal
                  /\ \A r \in Range(nodes) \ {t} :
                        Val(objNodes[r].demand) = InputDemand(r)

\* an unbalanced input with two equal largest sources was balanced
C9_Witness ==
    /\ Validated
    /\ Abs(InputTotal) > 10
    /\ \E a, b \in Range(nodes) :
          a # b /\ InputDemand(a) = InputDemand(b) /\ IsAdjustmentTarget(a)

\* the pipes at a node whose flow is unknown
UnknownIncident(id) ==
    {q.id : q \in {x \in Range(PipeObjs(pipes)) :
                     (x.start_node = id \/ x.end_node = id)
                     /\ IsNone(solved_flows[x.id])}}

\* no rule of the deduction applies to the solved values
FixedPoint ==
    /\ \A id \in Range(NodeIds) :
          /\ ~(~IsNone(solved_demands[id])
               /\ Cardinality(UnknownIncident(id)) = 1)
          /\ ~(IsNone(solved_demands[id]) /\ UnknownIncident(id) = {})
    /\ \A k \in DOMAIN loops :
          ~Resolvable(WalkLoop(loops[k], 1, solved_flows, solved_hl,
                               [valid_loop |-> TRUE, unknown_hl_pipes |-> <<>>,
                                current_sum |-> 0]),
                      solved_flows)

LoopsFound ==
    /\ method = "darcy"
    /\ pc \in {"init", "iterate", "results"} \/ (pc = "done" /\ result.kind = "ok")
    /\ NetworkConnected

\* C11: for a connected darcy network the loop basis solve_network iterates
\* over has pipe_count - node_count + 1 loops, every pipe being an edge of
\* its own (two pipes joining the same pair of nodes form a loop); a tree
\* has 0.
C11_LoopCount ==
    LoopsFound => Len(loops) = Len(pipes) - Cardinality(AllNodes) + 1

\* the pass about to run from the current state, replayed: the flows after
\* its node sweep and the head losses before and after its k-th loop
SweepFlows ==
    SolveNodes(NodeIds, [flows |-> solved_flows, demands |-> solved_demands,
                         changed |-> FALSE]).flows
HlBefore(k) ==
    SolveLoops(SubSeq(loops, 1, k - 1), SweepFlows,
               [hl |-> solved_hl, changed |-> FALSE]).hl
HlAfter(k) ==
    SolveLoop(loops[k], SweepFlows, [hl |-> HlBefore(k), changed |-> FALSE]).hl

\* the pipes of a loop with their direction in it
LoopEdges(loop) ==
    [i \in DOMAIN loop |->
       FindPipe(loop[i], loop[(i % Len(loop)) + 1], PipeObjs(pipes))[1]]
\* the pipes of the loop whose head loss is unknown
UnknownHl(loop, hl) ==
    SelectSeq(LoopEdges(loop), LAMBDA e : IsNone(hl[e.pid]))
\* magnitude times the sign of the flow times the direction in the loop,
\* summed around the loop
SignedHeadLossSum(loop, flows, hl) ==
    SeqSum([i \in DOMAIN loop |->
              Abs(Val(hl[LoopEdges(loop)[i].pid]))
                * (IF Val(flows[LoopEdges(loop)[i].pid]) >= 0 THEN 1 ELSE -1)
                * LoopEdges(loop)[i].dir])

\* C12: whenever the loop rule of a pass assigns a head-loss magnitude to
\* the one remaining pipe of a loop, the signed head losses around that
\* loop sum to zero afterwards; and when the remaining pipe's flow is
\* unknown the rule assigns nothing.
C12_LoopBalanced ==
    (method = "puzzle" /\ pc = "puzzle_loop"
       /\ LoopContinues(changed, iterations)) =>
        \A k \in DOMAIN loops :
            /\ HlAfter(k) # HlBefore(k) =>
                  SignedHeadLossSum(loops[k], SweepFlows, HlAfter(k)) = 0
            /\ (Len(UnknownHl(loops[k], HlBefore(k))) = 1
                  /\ IsNone(SweepFlows[UnknownHl(loops[k], HlBefore(k))[1].pid]))
                 => HlAfter(k) = HlBefore(k)

\* C13: in darcy mode, after validate_and_fix_network every pipe has
\* length > 0, diameter > 0 and a friction factor f with 0 < f <= 1 (100
\* hundredths): a length or diameter that was missing or <= 0 is the
\* default 1.0, a friction factor that was missing, <= 0 or > 1.0 is the
\* default 0.02, and valid values are the ones the caller passed.
C13_PipesValid ==
    (method = "darcy" /\ pc # "start") =>
        \A r \in Range(pipes) :
          LET was == callerPipes[r]
              now == objPipes[r]
          IN  /\ Val(now.length) > 0
              /\ Val(now.diameter) > 0
              /\ Val(now.roughness) > 0 /\ Val(now.roughness) <= 100
              /\ now.length = IF IsNone(was.length) \/ Val(was.length) <= 0
                              THEN Some(1) ELSE was.length
              /\ now.diameter = IF IsNone(was.diameter) \/ Val(was.diameter) <= 0
                                THEN Some(100) ELSE was.diameter
              /\ now.roughness = IF IsNone(was.roughness)
                                    \/ Val(was.roughness) <= 0
                                    \/ Val(was.roughness) > 100
                                 THEN Some(2) ELSE was.roughness

====
